---- MODULE Spec2Model ----
(***************************************************************************)
(* Model of the NachOS MP4 file system: the linked sector chain of a file  *)
(* header (filehdr.h, filehdr.cc) and the file system operations           *)
(* (filesys.cc, ksyscall.h).                                               *)
(*                                                                         *)
(* Specifications:                                                         *)
(*   Spec        sequential calls of Format, Create, Open, Remove, Resolve *)
(*               against the persisted disk;                               *)
(*   SpecHdr     one file header taken through Allocate, WriteBack,        *)
(*               FetchFrom, ByteToSector and Deallocate, for every bitmap  *)
(*               and byte length of a bounded set;                         *)
(*   SpecConc    two execution contexts inside Create, interleaved at      *)
(*               their disk I/O;                                           *)
(*   SpecHandle  the system calls on the one file handle.                  *)
(***************************************************************************)
EXTENDS Integers, Sequences, FiniteSets, TLC

(***************************************************************************)
(* Sizes.  The program's values (disk.h: SectorSize 128, NumSectors 1024;  *)
(* filehdr.h: LinkedDirect 31; directory.h: NumDirEntries) are scaled down *)
(* so that chains of several nodes, a full directory table and an          *)
(* exhausted disk are all reached.                                         *)
(***************************************************************************)
NumSectors == 17
SectorSize == 2
LinkedDirect == 2
NumDirEntries == 2
\* number of low sectors whose bit varies in the initial bitmaps of SpecHdr
HdrFreeBits == 9
\* largest byte length tried in SpecHdr is HdrMaxNodes full chain nodes plus one byte
HdrMaxNodes == 2
\* number of file system calls in one run of Spec
MaxCalls == 4

FreeMapSector == 0
DirectorySector == 1

Sectors == 0 .. (NumSectors - 1)
\* one sector of bitmap image, one sector of directory table image
FreeMapFileSize == SectorSize
DirectoryFileSize == SectorSize

divRoundUp(n, s) == (n + s - 1) \div s

SetMin(S) == CHOOSE x \in S : \A y \in S : x <= y

(***************************************************************************)
(* PersistentBitmap: the set of sectors marked used.                       *)
(***************************************************************************)
NumClear(map) == NumSectors - Cardinality(map)
\* the sector FindAndSet returns (the lowest clear bit), -1 when none is clear
FindAndSet(map) == IF Sectors \ map = {} THEN -1 ELSE SetMin(Sectors \ map)
Mark(map, s) == map \cup {s}
Clear(map, s) == map \ {s}

(***************************************************************************)
(* LinkedDataSector: one chain node.  SeqDataSectors: front and the        *)
(* in-core list of nodes (<<>> is the NULL list).                          *)
(***************************************************************************)
EmptyNode == [link |-> -1, data |-> [i \in 1 .. LinkedDirect |-> -1]]

\* Push that leaves the link of the node it extends unset
PushNoLink(list, sector) == Append(list, EmptyNode)

\* LinkedDataSector::Push on the last node of the list
Push(list, sector) == Append([list EXCEPT ![Len(list)].link = sector], EmptyNode)

\* AssignSector that fills the slots of a node from the last one down
AssignSectorFromLast(list, idx, sector) ==
    [list EXCEPT ![Len(list)].data[LinkedDirect - idx] = sector]

\* LinkedDataSector::AssignSector on the last node of the list (idx is 0-based)
AssignSector(list, idx, sector) == [list EXCEPT ![Len(list)].data[idx + 1] = sector]

\* the for loop of SeqDataSectors::Allocate, lines 81-86
RECURSIVE AllocFill(_, _, _)
AllocFill(st, idx, numSectors) ==
    IF idx < LinkedDirect /\ st.assigned < numSectors
    THEN LET sector == FindAndSet(st.map)
         IN IF sector < 0
            THEN [st EXCEPT !.res = "ABORT"]
            ELSE AllocFill([st EXCEPT !.map = Mark(@, sector),
                                      !.list = AssignSector(@, idx, sector),
                                      !.assigned = @ + 1],
                           idx + 1, numSectors)
    ELSE st

\* the while loop of SeqDataSectors::Allocate, lines 69-87
RECURSIVE AllocLoop(_, _)
AllocLoop(st, numSectors) ==
    IF st.res = "ABORT" \/ ~(st.assigned < numSectors)
    THEN st
    ELSE LET sector == FindAndSet(st.map)
         IN IF sector < 0
            THEN [st EXCEPT !.res = "ABORT"]
            ELSE LET st1 == IF st.front = -1
                            THEN [st EXCEPT !.front = sector,
                                            !.map = Mark(@, sector),
                                            !.list = <<EmptyNode>>]
                            ELSE [st EXCEPT !.map = Mark(@, sector),
                                            !.list = Push(@, sector)]
                 IN AllocLoop(AllocFill(st1, 0, numSectors), numSectors)

\* Allocate that takes the sector of the first node before it counts the free sectors
SeqDataSectors_AllocateTakesFront(map, seq, fileSize) ==
    LET numSectors == divRoundUp(fileSize, SectorSize)
        sector == FindAndSet(map)
        st0 == [res |-> "TRUE", map |-> map, front |-> seq.front,
                list |-> seq.list, assigned |-> 0]
    IN IF NumClear(map) < numSectors
       THEN IF sector < 0
            THEN [st0 EXCEPT !.res = "FALSE"]
            ELSE [st0 EXCEPT !.res = "FALSE", !.front = sector, !.map = Mark(@, sector),
                             !.list = <<EmptyNode>>]
       ELSE AllocLoop(st0, numSectors)

\* SeqDataSectors::Allocate: res is "TRUE", "FALSE" or "ABORT" (a failed ASSERT)
SeqDataSectors_Allocate(map, seq, fileSize) ==
    LET numSectors == divRoundUp(fileSize, SectorSize)
        st0 == [res |-> "TRUE", map |-> map, front |-> seq.front,
                list |-> seq.list, assigned |-> 0]
    IN IF NumClear(map) < numSectors
       THEN [st0 EXCEPT !.res = "FALSE"]
       ELSE AllocLoop(st0, numSectors)

\* the data slots of a node that Deallocate clears: up to the first -1
RECURSIVE UsedSlots(_, _)
UsedSlots(node, i) ==
    IF i <= LinkedDirect /\ node.data[i] # -1
    THEN {node.data[i]} \cup UsedSlots(node, i + 1)
    ELSE {}

\* DeallocLoop without line 101: the node's own sector stays marked
RECURSIVE DeallocLoopKeepsNode(_, _, _, _)
DeallocLoopKeepsNode(map, list, i, targetSector) ==
    IF i > Len(list)
    THEN map
    ELSE LET curr == list[i]
             m == map \ UsedSlots(curr, 1)
         IN IF curr.link # -1
            THEN DeallocLoopKeepsNode(m, list, i + 1, curr.link)
            ELSE m

\* the do-while loop of SeqDataSectors::Deallocate, lines 97-104
RECURSIVE DeallocLoop(_, _, _, _)
DeallocLoop(map, list, i, targetSector) ==
    IF i > Len(list)
    THEN map
    ELSE LET curr == list[i]
             m == Clear(map \ UsedSlots(curr, 1), targetSector)
         IN IF curr.link # -1
            THEN DeallocLoop(m, list, i + 1, curr.link)
            ELSE m

SeqDataSectors_Deallocate(map, seq) ==
    IF seq.front = -1 THEN map ELSE DeallocLoop(map, seq.list, 1, seq.front)


(***************************************************************************)
(* The disk: one record per sector.  kind is "raw" (never written), "hdr"  *)
(* (a file header), "node" (a chain node), "dir" (a directory table image) *)
(* or "map" (the bitmap image).                                            *)
(***************************************************************************)
RawSector == [kind |-> "raw", val |-> [zero |-> 0]]
BlankDisk == [s \in Sectors |-> RawSector]

\* SynchDisk::ReadSector / WriteSector accept sector numbers of the disk only
ValidSector(s) == s \in Sectors

NodeImage(node) == [kind |-> "node", val |-> node]
HdrImage(hdr) ==
    [kind |-> "hdr",
     val |-> [numBytes |-> hdr.numBytes, numSectors |-> hdr.numSectors, front |-> hdr.front]]

\* an io is the disk with the log of the sectors written so far
WriteSector(io, s, image, tag) ==
    [disk |-> [io.disk EXCEPT ![s] = image],
     wlog |-> Append(io.wlog, [k |-> tag, s |-> s])]

\* FileHeader::FileHeader
NewHeader == [numBytes |-> -1, numSectors |-> -1, front |-> -1, list |-> <<>>]

\* FileHeader::Allocate: res is what it returns, seqres what the chain allocator returned
FileHeader_Allocate(map, hdr, fileSize) ==
    LET r == SeqDataSectors_Allocate(map, [front |-> hdr.front, list |-> hdr.list], fileSize)
    IN [res |-> IF r.res = "ABORT" THEN "ABORT" ELSE "TRUE",
        seqres |-> r.res,
        map |-> r.map,
        hdr |-> [hdr EXCEPT !.numBytes = fileSize, !.front = r.front, !.list = r.list]]

FileHeader_Deallocate(map, hdr) ==
    SeqDataSectors_Deallocate(map, [front |-> hdr.front, list |-> hdr.list])

\* the while loop of SeqDataSectors::WriteBack, lines 130-133
RECURSIVE WriteBackLoop(_, _, _)
WriteBackLoop(io, list, i) ==
    LET link == list[i].link
    IN IF link = -1 \/ i >= Len(list)
       THEN io
       ELSE WriteBackLoop(WriteSector(io, link, NodeImage(list[i + 1]), "node"), list, i + 1)

SeqDataSectors_WriteBack(io, hdr) ==
    IF hdr.front = -1
    THEN io
    ELSE WriteBackLoop(WriteSector(io, hdr.front, NodeImage(hdr.list[1]), "node"), hdr.list, 1)

\* WriteBack that stores the header sector before the chain nodes
FileHeader_WriteBackHeaderFirst(io, hdr, sector) ==
    SeqDataSectors_WriteBack(WriteSector(io, sector, HdrImage(hdr), "hdr"), hdr)

\* FileHeader::WriteBack: the chain nodes, then the header sector
FileHeader_WriteBack(io, hdr, sector) ==
    WriteSector(SeqDataSectors_WriteBack(io, hdr), sector, HdrImage(hdr), "hdr")

\* the while loop of SeqDataSectors::FetchFrom, lines 115-118
RECURSIVE FetchLoop(_, _, _)
FetchLoop(disk, list, reads) ==
    LET link == list[Len(list)].link
    IN IF link = -1
       THEN [ok |-> TRUE, list |-> list, reads |-> reads]
       ELSE IF ~ValidSector(link) \/ Len(list) > NumSectors \/ disk[link].kind # "node"
            THEN [ok |-> FALSE, list |-> list, reads |-> Append(reads, link)]
            ELSE FetchLoop(disk, Append(list, disk[link].val), Append(reads, link))

\* SeqDataSectors::FetchFrom: the node at front is read before front is tested
SeqDataSectors_FetchFrom(disk, front) ==
    IF ~ValidSector(front) \/ disk[front].kind # "node"
    THEN [ok |-> FALSE, list |-> <<EmptyNode>>, reads |-> <<front>>]
    ELSE FetchLoop(disk, <<disk[front].val>>, <<front>>)

\* FileHeader::FetchFrom: ok is FALSE when a read did not deliver a sector of the chain
FileHeader_FetchFrom(disk, sector) ==
    IF ~ValidSector(sector) \/ disk[sector].kind # "hdr"
    THEN [ok |-> FALSE, hdr |-> NewHeader, reads |-> <<sector>>]
    ELSE LET h == disk[sector].val
             r == SeqDataSectors_FetchFrom(disk, h.front)
         IN [ok |-> r.ok,
             hdr |-> [numBytes |-> h.numBytes, numSectors |-> h.numSectors,
                      front |-> h.front, list |-> r.list],
             reads |-> <<sector>> \o r.reads]

\* results of GetSector that are no sector: a failed ASSERT, a NULL dereference
AssertFailed == -2
NullDeref == -3

\* GetSector without the walk of lines 246-249: the slot is read in the first node
GetSectorFirstNode(list, offset) ==
    LET numSectors == offset \div SectorSize
    IN IF list = <<>>
       THEN NullDeref
       ELSE list[1].data[(numSectors % LinkedDirect) + 1]

\* SeqDataSectors::GetSector
GetSector(list, offset) ==
    LET numSectors == offset \div SectorSize
        steps == numSectors \div LinkedDirect
    IN IF list = <<>>
       THEN NullDeref
       ELSE IF 1 + steps > Len(list)
            THEN AssertFailed
            ELSE list[1 + steps].data[(numSectors % LinkedDirect) + 1]

\* FileHeader::ByteToSector
ByteToSector(hdr, offset) == GetSector(hdr.list, offset)

\* FileHeader::FileLength
FileLength(hdr) == hdr.numBytes


(***************************************************************************)
(* Directory: a table of NumDirEntries entries.  Names are sequences of    *)
(* characters.                                                             *)
(***************************************************************************)
EmptyEntry == [inUse |-> FALSE, name |-> <<>>, sector |-> -1, isDir |-> FALSE]
EmptyTable == [i \in 1 .. NumDirEntries |-> EmptyEntry]

FindIndex(table, name) ==
    LET hits == {i \in 1 .. NumDirEntries : table[i].inUse /\ table[i].name = name}
    IN IF hits = {} THEN -1 ELSE SetMin(hits)

\* Directory::Find: the sector of the entry, -1 when the name is absent
Find(table, name) ==
    IF FindIndex(table, name) = -1 THEN -1 ELSE table[FindIndex(table, name)].sector

\* Directory::Add: fails when the name is present or no slot is empty
Add(table, name, sector, isDir) ==
    LET free == {i \in 1 .. NumDirEntries : ~table[i].inUse}
    IN IF FindIndex(table, name) # -1 \/ free = {}
       THEN [ok |-> FALSE, table |-> table]
       ELSE [ok |-> TRUE,
             table |-> [table EXCEPT ![SetMin(free)] =
                           [inUse |-> TRUE, name |-> name, sector |-> sector, isDir |-> isDir]]]

\* Directory::Remove: fails when the name is absent, else marks the slot empty
Remove(table, name) ==
    IF FindIndex(table, name) = -1
    THEN [ok |-> FALSE, table |-> table]
    ELSE [ok |-> TRUE, table |-> [table EXCEPT ![FindIndex(table, name)] = EmptyEntry]]

(***************************************************************************)
(* OpenFile: opening reads the file header off the disk; the contents of   *)
(* the bitmap file and of a directory file are one image, kept in the      *)
(* file's first data sector.                                               *)
(***************************************************************************)
OpenFile(d, sector) == FileHeader_FetchFrom(d, sector)

\* the sector holding the contents of the file whose header is at sector, -1 if unreadable
ContentSector(d, sector) ==
    LET f == OpenFile(d, sector)
    IN IF f.ok /\ ByteToSector(f.hdr, 0) \in Sectors THEN ByteToSector(f.hdr, 0) ELSE -1

\* Directory::FetchFrom(file)
DirectoryFetchFrom(d, sector) ==
    LET c == ContentSector(d, sector)
    IN IF c # -1 /\ d[c].kind = "dir"
       THEN [ok |-> TRUE, table |-> d[c].val.table]
       ELSE [ok |-> FALSE, table |-> EmptyTable]

\* Directory::WriteBack(file), PersistentBitmap::WriteBack(file): logged under the file's header sector
WriteFile(io, sector, image, tag) ==
    [disk |-> [io.disk EXCEPT ![ContentSector(io.disk, sector)] = image],
     wlog |-> Append(io.wlog, [k |-> tag, s |-> sector])]

DirectoryWriteBack(io, sector, table) ==
    WriteFile(io, sector, [kind |-> "dir", val |-> [table |-> table]], "dir")

BitmapWriteBack(io, map) ==
    WriteFile(io, FreeMapSector, [kind |-> "map", val |-> [bits |-> map]], "map")

\* new PersistentBitmap(freeMapFile, NumSectors)
BitmapFetchFrom(d) ==
    LET c == ContentSector(d, FreeMapSector)
    IN IF c # -1 /\ d[c].kind = "map" THEN d[c].val.bits ELSE {}

(***************************************************************************)
(* FileSystem::FileSystem(format = TRUE)                                   *)
(***************************************************************************)
\* formatting that marks the sector of the bitmap file's header only, before it allocates
FormatMarksOneSector(d) ==
    LET freeMap == Mark({}, FreeMapSector)
        m == FileHeader_Allocate(freeMap, NewHeader, FreeMapFileSize)
        r == FileHeader_Allocate(m.map, NewHeader, DirectoryFileSize)
        io1 == FileHeader_WriteBack([disk |-> d, wlog |-> <<>>], m.hdr, FreeMapSector)
        io2 == FileHeader_WriteBack(io1, r.hdr, DirectorySector)
        io3 == BitmapWriteBack(io2, r.map)
    IN DirectoryWriteBack(io3, DirectorySector, EmptyTable)

Format(d) ==
    LET freeMap == Mark(Mark({}, FreeMapSector), DirectorySector)
        m == FileHeader_Allocate(freeMap, NewHeader, FreeMapFileSize)
        r == FileHeader_Allocate(m.map, NewHeader, DirectoryFileSize)
        io1 == FileHeader_WriteBack([disk |-> d, wlog |-> <<>>], m.hdr, FreeMapSector)
        io2 == FileHeader_WriteBack(io1, r.hdr, DirectorySector)
        io3 == BitmapWriteBack(io2, r.map)
    IN DirectoryWriteBack(io3, DirectorySector, EmptyTable)

(***************************************************************************)
(* Paths are sequences of characters; NUL is the terminator that path[i]   *)
(* reads at i = strlen(path).                                              *)
(***************************************************************************)
NUL == "NUL"
CharAt(path, i) == IF i < Len(path) THEN path[i + 1] ELSE NUL

SetMax(S) == CHOOSE x \in S : \A y \in S : x >= y

\* the element of a one-element set: The({e(x) : x \in {v}}) is e(v), with v computed once
The(S) == CHOOSE x \in S : TRUE

\* the loop of FileSystem::DescribePath, lines 168-174: the index of the last '/', -1 if none
LastSlash(path) ==
    LET slashes == {i \in 0 .. (Len(path) - 1) : path[i + 1] = "/"}
    IN IF slashes = {} THEN -1 ELSE SetMax(slashes)

\* TraverseStep that keeps the bitmap in memory and does not write it for the new directory
TraverseStepKeepsBitmap(t) ==
    LET cur == DirectoryFetchFrom(t.io.disk, t.currDirFile)
        found == Find(cur.table, t.dirname)
        s == FindAndSet(t.freeMap)
        a == FileHeader_Allocate(Mark(t.freeMap, s), NewHeader, DirectoryFileSize)
        map2 == Mark(a.map, s)
        added == Add(cur.table, t.dirname, s, TRUE)
        io1 == FileHeader_WriteBack(t.io, a.hdr, s)
        io3 == DirectoryWriteBack(io1, t.currDirFile, added.table)
    IN IF ~cur.ok
       THEN [t EXCEPT !.status = "ABORT"]
       ELSE IF found = -1
            THEN IF s < 0 \/ a.res = "ABORT"
                 THEN [t EXCEPT !.status = "ABORT"]
                 ELSE IF ~OpenFile(io3.disk, s).ok
                      THEN [t EXCEPT !.status = "ABORT", !.io = io3, !.freeMap = map2,
                                     !.subdirSector = s, !.ndirs = @ + 1]
                      ELSE [t EXCEPT !.io = DirectoryWriteBack(io3, s, EmptyTable),
                                     !.freeMap = map2, !.subdirSector = s,
                                     !.currDirFile = s, !.dirname = <<>>, !.ndirs = @ + 1]
            ELSE IF ~OpenFile(t.io.disk, found).ok
                 THEN [t EXCEPT !.status = "ABORT", !.subdirSector = found]
                 ELSE [t EXCEPT !.subdirSector = found, !.currDirFile = found,
                                !.dirname = <<>>]

\* the directory found or created for one path component, lines 309-343
TraverseStep(t) ==
    LET cur == DirectoryFetchFrom(t.io.disk, t.currDirFile)
        found == Find(cur.table, t.dirname)
        s == FindAndSet(t.freeMap)
        a == FileHeader_Allocate(Mark(t.freeMap, s), NewHeader, DirectoryFileSize)
        map2 == Mark(a.map, s)
        added == Add(cur.table, t.dirname, s, TRUE)
        io1 == FileHeader_WriteBack(t.io, a.hdr, s)
        io2 == DirectoryWriteBack(io1, t.currDirFile, added.table)
        io3 == BitmapWriteBack(io2, map2)
    IN IF ~cur.ok
       THEN [t EXCEPT !.status = "ABORT"]
       ELSE IF found = -1
            THEN IF s < 0 \/ a.res = "ABORT"
                 THEN [t EXCEPT !.status = "ABORT"]
                 ELSE IF ~OpenFile(io3.disk, s).ok
                      THEN [t EXCEPT !.status = "ABORT", !.io = io3, !.freeMap = map2,
                                     !.subdirSector = s, !.ndirs = @ + 1]
                      ELSE [t EXCEPT !.io = DirectoryWriteBack(io3, s, EmptyTable),
                                     !.freeMap = map2, !.subdirSector = s,
                                     !.currDirFile = s, !.dirname = <<>>, !.ndirs = @ + 1]
            ELSE IF ~OpenFile(t.io.disk, found).ok
                 THEN [t EXCEPT !.status = "ABORT", !.subdirSector = found]
                 ELSE [t EXCEPT !.subdirSector = found, !.currDirFile = found,
                                !.dirname = <<>>]

\* the while loop of FileSystem::TraverseDirectory, lines 300-349
RECURSIVE TraverseLoop(_, _, _)
TraverseLoop(path, curr, t) ==
    LET c == CharAt(path, curr)
    IN IF c = "/" \/ c = NUL
       THEN IF t.dirname = <<>> /\ c = NUL
            THEN [t EXCEPT !.status = "DONE", !.ret = DirectorySector]
            ELSE The({IF t1.status = "ABORT"
                      THEN t1
                      ELSE IF c = NUL
                           THEN [t1 EXCEPT !.status = "DONE", !.ret = t1.subdirSector]
                           ELSE TraverseLoop(path, curr + 1, t1) : t1 \in {TraverseStep(t)}})
       ELSE TraverseLoop(path, curr + 1, [t EXCEPT !.dirname = Append(@, c)])

\* FileSystem::TraverseDirectory
TraverseDirectory(io, path) ==
    LET t0 == [io |-> io, freeMap |-> BitmapFetchFrom(io.disk),
               currDirFile |-> DirectorySector, subdirSector |-> -1,
               dirname |-> <<>>, status |-> "RUN", ret |-> -1, ndirs |-> 0]
    IN IF CharAt(path, 0) # "/"
       THEN [t0 EXCEPT !.status = "ABORT"]
       ELSE TraverseLoop(path, 1, t0)

\* DescribePath with the last '/' left in the directory part
DescribePathKeepsSlash(io, path) ==
    LET dirEnd == LastSlash(path)
        dir == SubSeq(path, 1, dirEnd + 1)
        name == <<"/">> \o SubSeq(path, dirEnd + 2, Len(path))
    IN IF dirEnd < 0
       THEN [status |-> "ABORT", io |-> io, dirSector |-> -1, name |-> <<>>, ndirs |-> 0]
       ELSE The({[status |-> t.status, io |-> t.io, dirSector |-> t.ret, name |-> name,
                  ndirs |-> t.ndirs] : t \in {TraverseDirectory(io, dir)}})

\* FileSystem::DescribePath: the directory part is traversed, the leaf name keeps a '/' in front
DescribePath(io, path) ==
    LET dirEnd == LastSlash(path)
        dir == IF dirEnd = 0 THEN <<"/">> ELSE SubSeq(path, 1, dirEnd)
        name == <<"/">> \o SubSeq(path, dirEnd + 2, Len(path))
    IN IF dirEnd < 0
       THEN [status |-> "ABORT", io |-> io, dirSector |-> -1, name |-> <<>>, ndirs |-> 0]
       ELSE The({[status |-> t.status, io |-> t.io, dirSector |-> t.ret, name |-> name,
                  ndirs |-> t.ndirs] : t \in {TraverseDirectory(io, dir)}})

Outcome(res, io, dirSector, sector, ndirs) ==
    [res |-> res, io |-> io, dirSector |-> dirSector, sector |-> sector, ndirs |-> ndirs]

\* Create that flushes the bitmap when the directory has no room for the name
CreateFlushesOnFullTable(d, path, initialSize) ==
    The({
    LET directory == DirectoryFetchFrom(p.io.disk, p.dirSector)
        freeMap == BitmapFetchFrom(p.io.disk)
        sector == FindAndSet(freeMap)
        added == Add(directory.table, p.name, sector, FALSE)
        a == FileHeader_Allocate(Mark(freeMap, sector), NewHeader, initialSize)
        io1 == FileHeader_WriteBack(p.io, a.hdr, sector)
        io2 == DirectoryWriteBack(io1, p.dirSector, added.table)
        io3 == BitmapWriteBack(io2, a.map)
    IN IF p.status = "ABORT" \/ ~directory.ok
       THEN Outcome("ABORT", p.io, p.dirSector, -1, p.ndirs)
       ELSE IF Find(directory.table, p.name) # -1 \/ sector = -1
            THEN Outcome("FALSE", p.io, p.dirSector, -1, p.ndirs)
            ELSE IF ~added.ok
                 THEN Outcome("FALSE", BitmapWriteBack(p.io, Mark(freeMap, sector)),
                              p.dirSector, -1, p.ndirs)
                 ELSE IF a.res = "ABORT"
                      THEN Outcome("ABORT", p.io, p.dirSector, -1, p.ndirs)
                      ELSE Outcome("TRUE", io3, p.dirSector, sector, p.ndirs)
    : p \in {DescribePath([disk |-> d, wlog |-> <<>>], path)}})

\* Create that does not look the name up and enters it in the first empty slot of the table
CreateWithoutLookup(d, path, initialSize) ==
    The({
    LET directory == DirectoryFetchFrom(p.io.disk, p.dirSector)
        freeMap == BitmapFetchFrom(p.io.disk)
        sector == FindAndSet(freeMap)
        free == {i \in 1 .. NumDirEntries : ~directory.table[i].inUse}
        table == IF free = {}
                 THEN directory.table
                 ELSE [directory.table EXCEPT ![SetMin(free)] =
                          [inUse |-> TRUE, name |-> p.name, sector |-> sector, isDir |-> FALSE]]
        a == FileHeader_Allocate(Mark(freeMap, sector), NewHeader, initialSize)
        io1 == FileHeader_WriteBack(p.io, a.hdr, sector)
        io2 == DirectoryWriteBack(io1, p.dirSector, table)
        io3 == BitmapWriteBack(io2, a.map)
    IN IF p.status = "ABORT" \/ ~directory.ok
       THEN Outcome("ABORT", p.io, p.dirSector, -1, p.ndirs)
       ELSE IF sector = -1 \/ free = {}
            THEN Outcome("FALSE", p.io, p.dirSector, -1, p.ndirs)
            ELSE IF a.res = "ABORT"
                 THEN Outcome("ABORT", p.io, p.dirSector, -1, p.ndirs)
                 ELSE Outcome("TRUE", io3, p.dirSector, sector, p.ndirs)
    : p \in {DescribePath([disk |-> d, wlog |-> <<>>], path)}})

\* FileSystem::Create
Create(d, path, initialSize) ==
    The({
    LET directory == DirectoryFetchFrom(p.io.disk, p.dirSector)
        freeMap == BitmapFetchFrom(p.io.disk)
        sector == FindAndSet(freeMap)
        added == Add(directory.table, p.name, sector, FALSE)
        a == FileHeader_Allocate(Mark(freeMap, sector), NewHeader, initialSize)
        io1 == FileHeader_WriteBack(p.io, a.hdr, sector)
        io2 == DirectoryWriteBack(io1, p.dirSector, added.table)
        io3 == BitmapWriteBack(io2, a.map)
    IN IF p.status = "ABORT" \/ ~directory.ok
       THEN Outcome("ABORT", p.io, p.dirSector, -1, p.ndirs)
       ELSE IF Find(directory.table, p.name) # -1
            THEN Outcome("FALSE", p.io, p.dirSector, -1, p.ndirs)
            ELSE IF sector = -1
                 THEN Outcome("FALSE", p.io, p.dirSector, -1, p.ndirs)
                 ELSE IF ~added.ok
                      THEN Outcome("FALSE", p.io, p.dirSector, -1, p.ndirs)
                      ELSE IF a.res = "ABORT"
                           THEN Outcome("ABORT", p.io, p.dirSector, -1, p.ndirs)
                           ELSE IF a.res # "TRUE"
                                THEN Outcome("FALSE", p.io, p.dirSector, -1, p.ndirs)
                                ELSE Outcome("TRUE", io3, p.dirSector, sector, p.ndirs)
    : p \in {DescribePath([disk |-> d, wlog |-> <<>>], path)}})

\* Open without the test of lines 378-381: the sector Find returned is opened as it is
OpenUnchecked(d, path) ==
    The({
    LET directory == DirectoryFetchFrom(p.io.disk, p.dirSector)
        fileSector == Find(directory.table, p.name)
    IN IF p.status = "ABORT" \/ ~directory.ok
       THEN Outcome("ABORT", p.io, p.dirSector, -1, p.ndirs)
       ELSE IF ~OpenFile(p.io.disk, fileSector).ok
            THEN Outcome("ABORT", p.io, p.dirSector, fileSector, p.ndirs)
            ELSE Outcome("HANDLE", p.io, p.dirSector, fileSector, p.ndirs)
    : p \in {DescribePath([disk |-> d, wlog |-> <<>>], path)}})

\* FileSystem::Open: res is "NULL", or "HANDLE" with the header sector the handle is bound to
Open(d, path) ==
    The({
    LET directory == DirectoryFetchFrom(p.io.disk, p.dirSector)
        fileSector == Find(directory.table, p.name)
    IN IF p.status = "ABORT" \/ ~directory.ok
       THEN Outcome("ABORT", p.io, p.dirSector, -1, p.ndirs)
       ELSE IF fileSector = -1
            THEN Outcome("NULL", p.io, p.dirSector, -1, p.ndirs)
            ELSE IF ~OpenFile(p.io.disk, fileSector).ok
                 THEN Outcome("ABORT", p.io, p.dirSector, fileSector, p.ndirs)
                 ELSE Outcome("HANDLE", p.io, p.dirSector, fileSector, p.ndirs)
    : p \in {DescribePath([disk |-> d, wlog |-> <<>>], path)}})

\* Remove that frees the sectors of the file and leaves its entry in the directory
RemoveFileKeepsEntry(d, name) ==
    LET io0 == [disk |-> d, wlog |-> <<>>]
        directory == DirectoryFetchFrom(d, DirectorySector)
        sector == Find(directory.table, name)
        fileHdr == FileHeader_FetchFrom(d, sector)
        freeMap == BitmapFetchFrom(d)
        map2 == Clear(FileHeader_Deallocate(freeMap, fileHdr.hdr), sector)
        io1 == BitmapWriteBack(io0, map2)
        io2 == DirectoryWriteBack(io1, DirectorySector, directory.table)
    IN IF ~directory.ok
       THEN Outcome("ABORT", io0, DirectorySector, -1, 0)
       ELSE IF sector = -1
            THEN Outcome("FALSE", io0, DirectorySector, -1, 0)
            ELSE IF ~fileHdr.ok
                 THEN Outcome("ABORT", io0, DirectorySector, sector, 0)
                 ELSE Outcome("TRUE", io2, DirectorySector, sector, 0)

\* FileSystem::Remove: name is looked up in the root directory as it is given
RemoveFile(d, name) ==
    LET io0 == [disk |-> d, wlog |-> <<>>]
        directory == DirectoryFetchFrom(d, DirectorySector)
        sector == Find(directory.table, name)
        fileHdr == FileHeader_FetchFrom(d, sector)
        freeMap == BitmapFetchFrom(d)
        map2 == Clear(FileHeader_Deallocate(freeMap, fileHdr.hdr), sector)
        io1 == BitmapWriteBack(io0, map2)
        io2 == DirectoryWriteBack(io1, DirectorySector, Remove(directory.table, name).table)
    IN IF ~directory.ok
       THEN Outcome("ABORT", io0, DirectorySector, -1, 0)
       ELSE IF sector = -1
            THEN Outcome("FALSE", io0, DirectorySector, -1, 0)
            ELSE IF ~fileHdr.ok
                 THEN Outcome("ABORT", io0, DirectorySector, sector, 0)
                 ELSE Outcome("TRUE", io2, DirectorySector, sector, 0)

\* path resolution alone: DescribePath(path).dirSector
Resolve(d, path) ==
    The({
        Outcome(IF p.status = "ABORT" THEN "ABORT" ELSE "SECTOR", p.io, p.dirSector, -1, p.ndirs)
    : p \in {DescribePath([disk |-> d, wlog |-> <<>>], path)}})

(***************************************************************************)
(* State.                                                                  *)
(*   disk    the persisted sectors                                         *)
(*   pre     the disk as it was before the last file system call           *)
(*   last    the last file system call, with its result and its writes:    *)
(*           res the result, dirSector the sector path resolution          *)
(*           returned, sector the header sector created, opened or         *)
(*           removed, wlog the sectors written in order, ndirs the number  *)
(*           of directories resolution created, again whether the call is  *)
(*           a Create of a path in made, after the header sector written   *)
(*           by a successful Create of the same path made just before an   *)
(*           Open (else -1), undoes whether the call is a Remove of the    *)
(*           name a successful Create made just before, mapBefore the      *)
(*           persisted bitmap before that Create (else {})                 *)
(*   made    the paths created successfully since the last Remove or       *)
(*           Format                                                        *)
(*   ncalls  the number of calls made                                      *)
(* and, for one header under SpecHdr,                                      *)
(*   hphase  how far the header has been taken                             *)
(*   hmap    the in-memory bitmap; hmap0 before Allocate, hmapA before     *)
(*           Deallocate                                                    *)
(*   hh      the in-memory header; hh0 as Allocate left it                 *)
(*   hsize, hsect   the byte length asked for, the header's sector         *)
(*   hres    what FileHeader::Allocate and SeqDataSectors::Allocate        *)
(*           returned                                                      *)
(*   hvia    "disk" once the header has been reloaded with FetchFrom       *)
(*   hreads  the sectors FetchFrom read                                    *)
(*   hoff, hsec   the last ByteToSector offset and its result              *)
(* and, for two execution contexts under SpecConc,                         *)
(*   ctx     per context, the Create call it is in: pc where it stands,    *)
(*           path and size its arguments, dirSector and name what          *)
(*           DescribePath returned, dir and map its in-memory directory    *)
(*           table and bitmap, sector and hdr the new header, res what the *)
(*           call returned, staleDir / staleMap whether the table / bitmap *)
(*           on the disk had changed since the context read it when the    *)
(*           context wrote its own back                                    *)
(* and, for the system calls on the one file handle under SpecHandle,      *)
(*   openedFile  the handle of FileSystem: NULL, Wild (a pointer that was  *)
(*           never set), or the open file with sector its header sector    *)
(*           and seekPosition its position                                 *)
(*   sys     the last system call: op, its arguments name and size, handle *)
(*           the value of openedFile it found, status how it ended         *)
(*           ("returned"; "ABORT", a failed ASSERT or disk read; "crash"   *)
(*           or "garbage", what the use of a pointer to no file gives),    *)
(*           ret what it returned                                          *)
(***************************************************************************)
VARIABLES disk, pre, last, made, ncalls,
          hphase, hmap, hmap0, hmapA, hh, hh0, hsize, hsect, hres, hvia, hreads, hoff, hsec,
          ctx, openedFile, sys

fsvars == <<disk, pre, last, made, ncalls>>
hvars == <<hphase, hmap, hmap0, hmapA, hh, hh0, hsize, hsect, hres, hvia, hreads, hoff, hsec>>
vars == <<disk, pre, last, made, ncalls,
          hphase, hmap, hmap0, hmapA, hh, hh0, hsize, hsect, hres, hvia, hreads, hoff, hsec,
          ctx, openedFile, sys>>
svars == <<openedFile, sys>>

\* no execution context is inside a call
NoContexts == <<>>

\* values of the pointer openedFile that are no open file: NULL, and a pointer never set
NULL == [state |-> "NULL", sector |-> -1, hdr |-> NewHeader, seekPosition |-> 0]
Wild == [state |-> "Wild", sector |-> -1, hdr |-> NewHeader, seekPosition |-> 0]

NoSys == [op |-> "none", name |-> <<>>, size |-> 0, handle |-> NULL, status |-> "none", ret |-> 0]

\* no system call has been made on the file handle
NoSyscalls ==
    /\ openedFile = NULL
    /\ sys = NoSys

NoCall == [op |-> "none", path |-> <<>>, size |-> 0, res |-> "none",
           dirSector |-> -1, sector |-> -1, wlog |-> <<>>, ndirs |-> 0,
           again |-> FALSE, after |-> -1, undoes |-> FALSE, mapBefore |-> {}]

(***************************************************************************)
(* SpecHdr: one header.                                                    *)
(***************************************************************************)
HdrMaxBytes == HdrMaxNodes * LinkedDirect * SectorSize + 1
HdrOffsets == 0 .. (HdrMaxBytes + SectorSize)
LowSectors == 0 .. (HdrFreeBits - 1)
\* the bitmaps a header is allocated from: any pattern of the low sectors
HdrBitmaps == {U \cup (Sectors \ LowSectors) : U \in (SUBSET LowSectors) \ {LowSectors}}

InitHdr ==
    /\ disk = BlankDisk
    /\ pre = BlankDisk
    /\ last = NoCall
    /\ made = {}
    /\ ncalls = 0
    /\ ctx = NoContexts
    /\ NoSyscalls
    /\ hphase = "fresh"
    /\ hsize \in 0 .. HdrMaxBytes
    /\ \E b \in HdrBitmaps :
          /\ hsect = FindAndSet(b)
          /\ hmap0 = Mark(b, FindAndSet(b))
    /\ hmap = hmap0
    /\ hmapA = hmap0
    /\ hh = NewHeader
    /\ hh0 = NewHeader
    /\ hres = [file |-> "none", seq |-> "none"]
    /\ hvia = "mem"
    /\ hreads = <<>>
    /\ hoff = -1
    /\ hsec = -1

\* hdr->Allocate(freeMap, fileSize) on a new FileHeader
HAllocate ==
    /\ hphase = "fresh"
    /\ LET r == FileHeader_Allocate(hmap, hh, hsize)
       IN /\ hphase' = CASE r.seqres = "TRUE" -> "allocated"
                         [] r.seqres = "FALSE" -> "exhausted"
                         [] OTHER -> "asserted"
          /\ hmap' = r.map
          /\ hh' = r.hdr
          /\ hh0' = r.hdr
          /\ hres' = [file |-> r.res, seq |-> r.seqres]
    /\ UNCHANGED <<fsvars, ctx, svars, hmap0, hmapA, hsize, hsect, hvia, hreads, hoff, hsec>>

\* hdr->WriteBack(sector)
HWriteBack ==
    /\ hphase \in {"allocated", "exhausted"}
    /\ hvia = "mem"
    /\ LET io == FileHeader_WriteBack([disk |-> disk, wlog |-> <<>>], hh, hsect)
       IN disk' = io.disk
    /\ hphase' = "written"
    /\ hoff' = -1
    /\ hsec' = -1
    /\ UNCHANGED <<pre, last, made, ncalls, ctx, svars, hmap, hmap0, hmapA, hh, hh0, hsize, hsect, hres, hvia, hreads>>

\* FetchFrom(sector) into a new FileHeader
HFetchFrom ==
    /\ hphase = "written"
    /\ LET r == FileHeader_FetchFrom(disk, hsect)
       IN /\ hphase' = IF r.ok THEN "fetched" ELSE "faulted"
          /\ hh' = r.hdr
          /\ hreads' = r.reads
    /\ hvia' = "disk"
    /\ UNCHANGED <<fsvars, ctx, svars, hmap, hmap0, hmapA, hh0, hsize, hsect, hres, hoff, hsec>>

\* hdr->Deallocate(freeMap)
HDeallocate ==
    /\ hphase \in {"allocated", "exhausted", "fetched"}
    /\ hmapA' = hmap
    /\ hmap' = FileHeader_Deallocate(hmap, hh)
    /\ hphase' = "deallocated"
    /\ hoff' = -1
    /\ hsec' = -1
    /\ UNCHANGED <<fsvars, ctx, svars, hmap0, hh, hh0, hsize, hsect, hres, hvia, hreads>>

\* hdr->ByteToSector(offset); it changes nothing, so one lookup is recorded per header
HByteToSector ==
    /\ hphase \in {"allocated", "exhausted", "fetched"}
    /\ hoff = -1
    /\ \E offset \in HdrOffsets :
          /\ hoff' = offset
          /\ hsec' = ByteToSector(hh, offset)
    /\ UNCHANGED <<fsvars, ctx, svars, hphase, hmap, hmap0, hmapA, hh, hh0, hsize, hsect, hres, hvia, hreads>>

NextHdr ==
    \/ HAllocate
    \/ HWriteBack
    \/ HFetchFrom
    \/ HDeallocate
    \/ HByteToSector

SpecHdr == InitHdr /\ [][NextHdr]_vars


(***************************************************************************)
(* Spec: sequential file system calls.  The disk starts freshly formatted. *)
(***************************************************************************)
PathF == <<"/", "f">>
PathG == <<"/", "g">>
\* a file at the root named as the directory of PathAF
PathA == <<"/", "a">>
PathAF == <<"/", "a", "/", "f">>
PathABC == <<"/", "a", "/", "b", "/", "c">>
DirA == <<"/", "a", "/">>
DirAB == <<"/", "a", "/", "b", "/">>
NameA == <<"a">>
NameB == <<"b">>

CreatePaths == {PathF, PathG, PathA, PathAF, PathABC}
RemoveNames == {PathF, PathG, NameA, <<"f">>}
ResolvePaths == {DirA, DirAB, <<"/">>}
\* an empty file, one sector, more than the whole disk
FileSizes == {0, 1, NumSectors * SectorSize + 1}

Formatted == Format(BlankDisk).disk

Idle ==
    /\ hphase = "idle"
    /\ hmap = {}
    /\ hmap0 = {}
    /\ hmapA = {}
    /\ hh = NewHeader
    /\ hh0 = NewHeader
    /\ hsize = 0
    /\ hsect = -1
    /\ hres = [file |-> "none", seq |-> "none"]
    /\ hvia = "mem"
    /\ hreads = <<>>
    /\ hoff = -1
    /\ hsec = -1

Init ==
    /\ disk = Formatted
    /\ pre = Formatted
    /\ last = NoCall
    /\ made = {}
    /\ ncalls = 0
    /\ ctx = NoContexts
    /\ NoSyscalls
    /\ Idle

Called(op, path, size, r) ==
    [op |-> op, path |-> path, size |-> size, res |-> r.res,
     dirSector |-> r.dirSector, sector |-> r.sector, wlog |-> r.io.wlog, ndirs |-> r.ndirs,
     again |-> (op = "Create" /\ path \in made),
     after |-> IF op = "Open" /\ last.op = "Create" /\ last.res = "TRUE" /\ last.path = path
               THEN last.sector
               ELSE -1,
     undoes |-> (op = "Remove" /\ last.op = "Create" /\ last.res = "TRUE" /\ last.path = path),
     mapBefore |-> IF op = "Remove" /\ last.op = "Create" /\ last.res = "TRUE" /\ last.path = path
                   THEN BitmapFetchFrom(pre)
                   ELSE {}]

DoFormat ==
    /\ ncalls < MaxCalls
    /\ ncalls' = ncalls + 1
    /\ last.op # "Format"
    /\ \E io \in {Format(disk)} :
          /\ disk' = io.disk
          /\ last' = [NoCall EXCEPT !.op = "Format", !.res = "TRUE", !.wlog = io.wlog]
    /\ pre' = disk
    /\ made' = {}
    /\ UNCHANGED <<hvars, ctx, svars>>

DoCreate ==
    /\ ncalls < MaxCalls
    /\ ncalls' = ncalls + 1
    /\ \E path \in CreatePaths, size \in FileSizes :
        \E r \in {Create(disk, path, size)} :
           /\ disk' = r.io.disk
           /\ pre' = disk
           /\ last' = Called("Create", path, size, r)
           /\ made' = IF r.res = "TRUE" THEN made \cup {path} ELSE made
           /\ UNCHANGED <<hvars, ctx, svars>>

DoOpen ==
    /\ ncalls < MaxCalls
    /\ ncalls' = ncalls + 1
    /\ \E path \in CreatePaths :
        \E r \in {Open(disk, path)} :
           /\ disk' = r.io.disk
           /\ pre' = disk
           /\ last' = Called("Open", path, 0, r)
           /\ UNCHANGED <<made, hvars, ctx, svars>>

DoRemove ==
    /\ ncalls < MaxCalls
    /\ ncalls' = ncalls + 1
    /\ \E name \in RemoveNames :
        \E r \in {RemoveFile(disk, name)} :
           /\ disk' = r.io.disk
           /\ pre' = disk
           /\ last' = Called("Remove", name, 0, r)
           /\ made' = IF r.res = "TRUE" THEN {} ELSE made
           /\ UNCHANGED <<hvars, ctx, svars>>

DoResolve ==
    /\ ncalls < MaxCalls
    /\ ncalls' = ncalls + 1
    /\ \E path \in ResolvePaths :
        \E r \in {Resolve(disk, path)} :
           /\ disk' = r.io.disk
           /\ pre' = disk
           /\ last' = Called("Resolve", path, 0, r)
           /\ UNCHANGED <<made, hvars, ctx, svars>>

Next ==
    \/ DoFormat
    \/ DoCreate
    \/ DoOpen
    \/ DoRemove
    \/ DoResolve

Spec == Init /\ [][Next]_vars


(***************************************************************************)
(* SpecConc: two execution contexts, each inside one FileSystem::Create,   *)
(* on one disk.  A context is suspended only at disk I/O, so a step runs   *)
(* from one I/O of Create to the next: fetch the parent table, fetch the   *)
(* bitmap (and allocate in memory), write the header, write the table,     *)
(* write the bitmap.  Nothing orders the steps of the two contexts.        *)
(***************************************************************************)
Contexts == {1, 2}
ConcPath(c) == IF c = 1 THEN PathF ELSE PathG
\* an empty file, one data sector, two data sectors
ConcSizes == {0, 1, SectorSize + 1}

\* FileSystem::Create, lines 240-253: the path is split, the parent table fetched and searched
CreateLookup(d, path) ==
    The({
    LET directory == DirectoryFetchFrom(p.io.disk, p.dirSector)
    IN [status |-> IF p.status = "ABORT" \/ ~directory.ok
                   THEN "ABORT"
                   ELSE IF Find(directory.table, p.name) # -1 THEN "FALSE" ELSE "RUN",
        disk |-> p.io.disk, dirSector |-> p.dirSector, name |-> p.name,
        dir |-> directory.table]
    : p \in {DescribePath([disk |-> d, wlog |-> <<>>], path)}})

\* Create that does not enter the name in its directory table
CreateAllocateNoAdd(freeMap, table, name, initialSize) ==
    LET sector == FindAndSet(freeMap)
        a == FileHeader_Allocate(Mark(freeMap, sector), NewHeader, initialSize)
    IN [status |-> IF sector = -1
                   THEN "FALSE"
                   ELSE IF a.res = "ABORT" THEN "ABORT" ELSE "TRUE",
        sector |-> sector, dir |-> table, map |-> a.map, hdr |-> a.hdr]

\* FileSystem::Create, lines 256-268, on the bitmap just loaded: a sector for the header, the
\* name entered in the table, the chain allocated, all in memory
CreateAllocate(freeMap, table, name, initialSize) ==
    LET sector == FindAndSet(freeMap)
        added == Add(table, name, sector, FALSE)
        a == FileHeader_Allocate(Mark(freeMap, sector), NewHeader, initialSize)
    IN [status |-> IF sector = -1 \/ ~added.ok
                   THEN "FALSE"
                   ELSE IF a.res = "ABORT"
                        THEN "ABORT"
                        ELSE IF a.res # "TRUE" THEN "FALSE" ELSE "TRUE",
        sector |-> sector, dir |-> added.table, map |-> a.map, hdr |-> a.hdr]

StartContext(path, size) ==
    [pc |-> "start", path |-> path, size |-> size, dirSector |-> -1, name |-> <<>>,
     dir0 |-> EmptyTable, dir |-> EmptyTable, map0 |-> {}, map |-> {},
     sector |-> -1, hdr |-> NewHeader, res |-> "none",
     staleDir |-> FALSE, staleMap |-> FALSE]

InitConc ==
    /\ disk = Formatted
    /\ pre = Formatted
    /\ last = NoCall
    /\ made = {}
    /\ ncalls = 0
    /\ NoSyscalls
    /\ Idle
    /\ \E s1, s2 \in ConcSizes :
          ctx = [c \in Contexts |-> StartContext(ConcPath(c), IF c = 1 THEN s1 ELSE s2)]

\* directory->FetchFrom(dirFile) and the test of line 252
CFetchDirectory ==
    \E c \in Contexts :
        /\ ctx[c].pc = "start"
        /\ \E r \in {CreateLookup(disk, ctx[c].path)} :
              /\ disk' = r.disk
              /\ ctx' = [ctx EXCEPT ![c].pc = IF r.status = "RUN" THEN "haveDir" ELSE "done",
                                    ![c].res = IF r.status = "RUN" THEN "none" ELSE r.status,
                                    ![c].dirSector = r.dirSector,
                                    ![c].name = r.name,
                                    ![c].dir0 = r.dir,
                                    ![c].dir = r.dir]
        /\ UNCHANGED <<pre, last, made, ncalls, hvars, svars>>

\* new PersistentBitmap(freeMapFile, NumSectors), then lines 256-268 in memory
CFetchBitmap ==
    \E c \in Contexts :
        /\ ctx[c].pc = "haveDir"
        /\ \E r \in {CreateAllocate(BitmapFetchFrom(disk), ctx[c].dir, ctx[c].name, ctx[c].size)} :
              ctx' = [ctx EXCEPT ![c].pc = IF r.status = "TRUE" THEN "allocated" ELSE "done",
                                 ![c].res = IF r.status = "TRUE" THEN "none" ELSE r.status,
                                 ![c].map0 = BitmapFetchFrom(disk),
                                 ![c].map = r.map,
                                 ![c].dir = r.dir,
                                 ![c].sector = r.sector,
                                 ![c].hdr = r.hdr]
        /\ UNCHANGED <<fsvars, hvars, svars>>

\* hdr->WriteBack(sector)
CWriteHeader ==
    \E c \in Contexts :
        /\ ctx[c].pc = "allocated"
        /\ disk' = FileHeader_WriteBack([disk |-> disk, wlog |-> <<>>], ctx[c].hdr,
                                        ctx[c].sector).disk
        /\ ctx' = [ctx EXCEPT ![c].pc = "hdrWritten"]
        /\ UNCHANGED <<pre, last, made, ncalls, hvars, svars>>

\* directory->WriteBack(dirFile)
CWriteDirectory ==
    \E c \in Contexts :
        /\ ctx[c].pc = "hdrWritten"
        /\ disk' = DirectoryWriteBack([disk |-> disk, wlog |-> <<>>], ctx[c].dirSector,
                                      ctx[c].dir).disk
        /\ ctx' = [ctx EXCEPT ![c].pc = "dirWritten",
                              ![c].staleDir =
                                  (DirectoryFetchFrom(disk, ctx[c].dirSector).table # ctx[c].dir0)]
        /\ UNCHANGED <<pre, last, made, ncalls, hvars, svars>>

\* freeMap->WriteBack(freeMapFile); Create returns TRUE
CWriteBitmap ==
    \E c \in Contexts :
        /\ ctx[c].pc = "dirWritten"
        /\ disk' = BitmapWriteBack([disk |-> disk, wlog |-> <<>>], ctx[c].map).disk
        /\ ctx' = [ctx EXCEPT ![c].pc = "done",
                              ![c].res = "TRUE",
                              ![c].staleMap = (BitmapFetchFrom(disk) # ctx[c].map0)]
        /\ UNCHANGED <<pre, last, made, ncalls, hvars, svars>>

NextConc ==
    \/ CFetchDirectory
    \/ CFetchBitmap
    \/ CWriteHeader
    \/ CWriteDirectory
    \/ CWriteBitmap

SpecConc == InitConc /\ [][NextConc]_vars


(***************************************************************************)
(* SpecHandle: the system calls on the one file handle of FileSystem       *)
(* (SysOpen, SysRead, SysWrite, SysClose of ksyscall.h), made one after    *)
(* the other on a disk that holds files.  The constructor does not set     *)
(* openedFile, so it starts as NULL or as a pointer to no file.  A call    *)
(* through a pointer to no file is undefined: it ends the program or       *)
(* returns a value that comes from no file.                                *)
(***************************************************************************)
HandleNames == {PathF, PathG, PathAF}
IOSizes == {1, SectorSize + 1}
UBOutcomes == {"crash", "garbage"}

\* a formatted disk; one with /f of two data sectors; one with /f and an empty /a/f
HandleDisks ==
    {Formatted,
     Create(Formatted, PathF, SectorSize + 1).io.disk,
     Create(Create(Formatted, PathF, 1).io.disk, PathAF, 0).io.disk}

\* OpenFile::ReadAt, OpenFile::WriteAt: the number of bytes transferred, the file does not grow
Transfer(hdr, position, numBytes) ==
    IF numBytes <= 0 \/ position >= FileLength(hdr)
    THEN 0
    ELSE IF position + numBytes > FileLength(hdr)
         THEN FileLength(hdr) - position
         ELSE numBytes

\* the data sectors holding the bytes position .. position + n - 1 of a file
SectorsOf(hdr, position, n) ==
    {ByteToSector(hdr, i * SectorSize) :
        i \in (position \div SectorSize) .. ((position + n - 1) \div SectorSize)}

DataImage == [kind |-> "data", val |-> [zero |-> 0]]

\* the program runs: no call has ended it
Running == sys.status \notin {"crash", "ABORT"}

InitHandle ==
    /\ disk \in HandleDisks
    /\ pre = disk
    /\ last = NoCall
    /\ made = {}
    /\ ncalls = 0
    /\ ctx = NoContexts
    /\ Idle
    /\ openedFile \in {NULL, Wild}
    /\ sys = NoSys

\* SysOpen: FileSystem::OpenAndStore
SysOpen ==
    /\ Running
    /\ ncalls < MaxCalls
    /\ ncalls' = ncalls + 1
    /\ \E name \in HandleNames :
        \E r \in {Open(disk, name)} :
           /\ disk' = r.io.disk
           /\ pre' = disk
           /\ openedFile' =
                  CASE r.res = "HANDLE" ->
                           [state |-> "open", sector |-> r.sector,
                            hdr |-> OpenFile(r.io.disk, r.sector).hdr, seekPosition |-> 0]
                    [] r.res = "NULL" -> NULL
                    [] OTHER -> openedFile
           /\ sys' = [op |-> "Open", name |-> name, size |-> 0, handle |-> openedFile,
                      status |-> IF r.res \in {"HANDLE", "NULL"} THEN "returned" ELSE "ABORT",
                      ret |-> IF r.res = "HANDLE" THEN 1 ELSE 0]
    /\ UNCHANGED <<last, made, hvars, ctx>>

\* SysRead: FileSystem::Read, openedFile->Read(buf, size)
SysRead ==
    /\ Running
    /\ ncalls < MaxCalls
    /\ ncalls' = ncalls + 1
    /\ \E size \in IOSizes :
          IF openedFile.state # "open"
          THEN /\ \E o \in UBOutcomes :
                     sys' = [op |-> "Read", name |-> <<>>, size |-> size, handle |-> openedFile,
                             status |-> o, ret |-> 0]
               /\ openedFile' = openedFile
          ELSE \E n \in {Transfer(openedFile.hdr, openedFile.seekPosition, size)} :
                  /\ sys' = [op |-> "Read", name |-> <<>>, size |-> size, handle |-> openedFile,
                             status |-> "returned", ret |-> n]
                  /\ openedFile' = [openedFile EXCEPT !.seekPosition = @ + n]
    /\ pre' = disk
    /\ UNCHANGED <<disk, last, made, hvars, ctx>>

\* SysWrite: FileSystem::Write, openedFile->Write(buf, size)
SysWrite ==
    /\ Running
    /\ ncalls < MaxCalls
    /\ ncalls' = ncalls + 1
    /\ \E size \in IOSizes :
          IF openedFile.state # "open"
          THEN /\ \E o \in UBOutcomes :
                     sys' = [op |-> "Write", name |-> <<>>, size |-> size, handle |-> openedFile,
                             status |-> o, ret |-> 0]
               /\ openedFile' = openedFile
               /\ disk' = disk
          ELSE \E n \in {Transfer(openedFile.hdr, openedFile.seekPosition, size)} :
                  /\ sys' = [op |-> "Write", name |-> <<>>, size |-> size, handle |-> openedFile,
                             status |-> "returned", ret |-> n]
                  /\ openedFile' = [openedFile EXCEPT !.seekPosition = @ + n]
                  /\ disk' = [s \in Sectors |->
                                 IF n > 0 /\ s \in SectorsOf(openedFile.hdr,
                                                              openedFile.seekPosition, n)
                                 THEN DataImage
                                 ELSE disk[s]]
    /\ pre' = disk
    /\ UNCHANGED <<last, made, hvars, ctx>>

\* SysClose: FileSystem::Close
SysClose ==
    /\ Running
    /\ ncalls < MaxCalls
    /\ ncalls' = ncalls + 1
    /\ openedFile' = NULL
    /\ sys' = [op |-> "Close", name |-> <<>>, size |-> 0, handle |-> openedFile,
               status |-> "returned", ret |-> 1]
    /\ pre' = disk
    /\ UNCHANGED <<disk, last, made, hvars, ctx>>

NextHandle ==
    \/ SysOpen
    \/ SysRead
    \/ SysWrite
    \/ SysClose

SpecHandle == InitHandle /\ [][NextHandle]_vars


(***************************************************************************)
(* What the claims speak of, read off a header or off the disk.            *)
(***************************************************************************)
\* the sectors storing the chain nodes, from front along the links
NodeSectors(hdr) ==
    IF hdr.front = -1
    THEN <<>>
    ELSE <<hdr.front>> \o [i \in 1 .. (Len(hdr.list) - 1) |-> hdr.list[i].link]

\* the filled slots of one node, in slot order
NodeData(node) == SelectSeq(node.data, LAMBDA x : x # -1)

\* the data sectors of a chain: the slots of its nodes from head to last
RECURSIVE FlatData(_)
FlatData(list) == IF list = <<>> THEN <<>> ELSE NodeData(Head(list)) \o FlatData(Tail(list))

Range(seq) == {seq[i] : i \in 1 .. Len(seq)}

ChainSectors(hdr) == Range(NodeSectors(hdr)) \cup Range(FlatData(hdr.list))

\* the persisted bitmap and the persisted table of the directory whose header is at sector
PersistedBitmap(d) == BitmapFetchFrom(d)
Table(d, sector) == DirectoryFetchFrom(d, sector).table

\* the directory names a path goes through, and the name its leaf is stored under
DirsOf(path) ==
    CASE path \in {PathAF, DirA} -> <<NameA>>
      [] path \in {PathABC, DirAB} -> <<NameA, NameB>>
      [] OTHER -> <<>>
LeafOf(path) ==
    CASE path = PathF -> <<"/", "f">>
      [] path = PathG -> <<"/", "g">>
      [] path = PathA -> <<"/", "a">>
      [] path = PathAF -> <<"/", "f">>
      [] path = PathABC -> <<"/", "c">>
      [] OTHER -> <<"/">>

\* the sector reached from a directory through existing entries only, -1 if one is missing
RECURSIVE Walk(_, _, _)
Walk(d, sector, names) ==
    IF names = <<>>
    THEN IF DirectoryFetchFrom(d, sector).ok THEN sector ELSE -1
    ELSE IF ~DirectoryFetchFrom(d, sector).ok \/ Find(Table(d, sector), Head(names)) = -1
         THEN -1
         ELSE Walk(d, Find(Table(d, sector), Head(names)), Tail(names))

ParentOf(d, path) == Walk(d, DirectorySector, DirsOf(path))

IsDirEntry(table, name) ==
    FindIndex(table, name) # -1 /\ table[FindIndex(table, name)].isDir

\* the files whose contents were written, in order
DirWrites(wlog) ==
    LET sel == SelectSeq(wlog, LAMBDA w : w.k = "dir")
    IN [i \in 1 .. Len(sel) |-> sel[i].s]

Fresh(d) ==
    /\ PersistedBitmap(d) = PersistedBitmap(Formatted)
    /\ Table(d, DirectorySector) = EmptyTable

(***************************************************************************)
(* C1  Exhaustion.  A Create asking for more bytes than FreeCount() *      *)
(* SectorSize of the persisted bitmap returns failure and leaves the       *)
(* persisted bitmap and the persisted parent directory table as they were. *)
(* (Stated for calls whose parent directory exists, so that no directory   *)
(* is created on the way.)                                                 *)
(***************************************************************************)
C1_Exhaustion ==
    (/\ last.op = "Create"
     /\ last.ndirs = 0
     /\ last.size > NumClear(PersistedBitmap(pre)) * SectorSize) =>
        /\ last.res = "FALSE"
        /\ PersistedBitmap(disk) = PersistedBitmap(pre)
        /\ Table(disk, last.dirSector) = Table(pre, last.dirSector)

C3_NameConflict ==
    (last.op = "Create" /\ last.again) =>
        /\ last.res = "FALSE"
        /\ disk = pre

(***************************************************************************)
(* C4  Absence.  Open of a leaf name that is not in its parent directory   *)
(* table returns NULL; Remove of a name that is not in the root table      *)
(* returns FALSE and writes nothing.                                       *)
(***************************************************************************)
C4_Absence ==
    /\ (/\ last.op = "Open"
        /\ ParentOf(pre, last.path) # -1
        /\ Find(Table(pre, ParentOf(pre, last.path)), LeafOf(last.path)) = -1) =>
           last.res = "NULL"
    /\ (/\ last.op = "Remove"
        /\ Find(Table(pre, DirectorySector), last.path) = -1) =>
           /\ last.res = "FALSE"
           /\ last.wlog = <<>>
           /\ disk = pre

\* Open of an absent leaf in a directory below the root that exists
C4_Witness ==
    /\ last.op = "Open"
    /\ last.path = PathAF
    /\ ParentOf(pre, PathAF) \notin {-1, DirectorySector}
    /\ Find(Table(pre, ParentOf(pre, PathAF)), LeafOf(PathAF)) = -1
    /\ last.res = "NULL"

(***************************************************************************)
(* C5  Open is read-only.  Open leaves the persisted bitmap and every      *)
(* directory table unchanged; through a missing intermediate directory it  *)
(* fails (NULL) without creating the directory.                            *)
(***************************************************************************)
C5_OpenReadOnly ==
    (last.op = "Open") =>
        /\ last.wlog = <<>>
        /\ last.ndirs = 0
        /\ PersistedBitmap(disk) = PersistedBitmap(pre)
        /\ (ParentOf(pre, last.path) = -1 => last.res = "NULL")

(***************************************************************************)
(* C6  Path auto-creation.  On a freshly formatted disk a successful       *)
(* Create of /a/b/c adds the directory entry a to the root table, then the *)
(* directory entry b to the table of a, then the leaf to the table of b.   *)
(* A Resolve of /a/b/ made while these directories exist returns the       *)
(* sector of b, the one the leaf was created in, allocates nothing and     *)
(* writes nothing.                                                         *)
(***************************************************************************)
C6_PathAutoCreation ==
    /\ (/\ last.op = "Create"
        /\ last.path = PathABC
        /\ last.res = "TRUE"
        /\ Fresh(pre)) =>
           LET a == Find(Table(disk, DirectorySector), NameA)
               b == Find(Table(disk, a), NameB)
           IN /\ a # -1
              /\ IsDirEntry(Table(disk, DirectorySector), NameA)
              /\ b # -1
              /\ IsDirEntry(Table(disk, a), NameB)
              /\ Find(Table(disk, b), LeafOf(PathABC)) = last.sector
              /\ ~IsDirEntry(Table(disk, b), LeafOf(PathABC))
              /\ last.sector # -1
              /\ last.dirSector = b
              /\ last.dirSector = ParentOf(disk, PathABC)
              /\ last.ndirs = 2
              /\ DirWrites(last.wlog) = <<DirectorySector, a, a, b, b>>
    /\ (/\ last.op = "Resolve"
        /\ last.path = DirAB
        /\ ParentOf(pre, DirAB) # -1) =>
           /\ last.res = "SECTOR"
           /\ last.dirSector = ParentOf(pre, DirAB)
           /\ last.ndirs = 0
           /\ last.wlog = <<>>
           /\ disk = pre

\* Resolve of /a/b/ reaching the directory that holds the leaf c
C6_Witness ==
    /\ last.op = "Resolve"
    /\ last.path = DirAB
    /\ last.res = "SECTOR"
    /\ last.dirSector = ParentOf(pre, DirAB)
    /\ last.dirSector \notin {-1, DirectorySector}
    /\ Find(Table(disk, last.dirSector), LeafOf(PathABC)) # -1
    /\ PathABC \in made

(***************************************************************************)
(* C7  Create then Open.  When Create returns TRUE, an Open of the same    *)
(* path made next returns a handle bound to the header sector Create       *)
(* wrote, also when an intermediate directory was created in a full parent *)
(* table.  (Stated for files that got a data chain.)                       *)
(***************************************************************************)
C7_CreateThenOpen ==
    (/\ last.op = "Open"
     /\ last.after # -1
     /\ pre[last.after].val.front # -1) =>
        /\ last.res = "HANDLE"
        /\ last.sector = last.after

(***************************************************************************)
(* C8  Bitmap conservation.  When Allocate succeeded, Deallocate on the    *)
(* same header, directly or on the header reloaded after WriteBack and     *)
(* FetchFrom, leaves the bitmap as it was before Allocate (so FreeCount is *)
(* the same); it clears exactly the data sectors and the chain-node        *)
(* sectors of the chain, and nothing when front is the sentinel.           *)
(***************************************************************************)
C8_BitmapConservation ==
    (hphase = "deallocated" /\ hres.seq = "TRUE") =>
        /\ hmap = hmap0
        /\ NumClear(hmap) = NumClear(hmap0)
        /\ hmap = hmapA \ ChainSectors(hh0)
        /\ ChainSectors(hh0) \subseteq hmapA
        /\ (hh.front = -1 => hmap = hmapA)

\* a chain of two nodes or more, written, reloaded and deallocated
C8_Witness ==
    /\ hphase = "deallocated"
    /\ hres.seq = "TRUE"
    /\ hvia = "disk"
    /\ Len(hh.list) >= 2
    /\ hmap # hmapA

(***************************************************************************)
(* C9  Header round trip.  For a header of a successful Allocate, also of  *)
(* length zero, WriteBack(s) then FetchFrom(s) into a new header gives the *)
(* same numBytes, numSectors, head and chain, and reads only sector s and  *)
(* the chain-node sectors.                                                 *)
(***************************************************************************)
C9_HeaderRoundTrip ==
    (hphase \in {"fetched", "faulted"} /\ hres.seq = "TRUE") =>
        /\ hphase = "fetched"
        /\ hh.numBytes = hh0.numBytes
        /\ hh.numSectors = hh0.numSectors
        /\ hh.front = hh0.front
        /\ hh.list = hh0.list
        /\ Range(hreads) \subseteq ({hsect} \cup Range(NodeSectors(hh0)))

(***************************************************************************)
(* C10  Offset mapping.  For a header of a successful Allocate, in memory  *)
(* or reloaded with FetchFrom, and 0 <= offset < numBytes, ByteToSector    *)
(* returns element offset / SectorSize of the data sectors of the chain    *)
(* taken from head to last node.                                           *)
(***************************************************************************)
C10_OffsetMapping ==
    (/\ hphase \in {"allocated", "fetched"}
     /\ hres.seq = "TRUE"
     /\ hoff >= 0
     /\ hoff < hh.numBytes) =>
        /\ (hoff \div SectorSize) + 1 <= Len(FlatData(hh.list))
        /\ hsec = FlatData(hh.list)[(hoff \div SectorSize) + 1]
        /\ hsec = FlatData(hh0.list)[(hoff \div SectorSize) + 1]
        /\ hsec \in Sectors

\* an offset in the second node of a reloaded chain
C10_Witness ==
    /\ hphase = "fetched"
    /\ hres.seq = "TRUE"
    /\ hoff >= LinkedDirect * SectorSize
    /\ hoff < hh.numBytes
    /\ hsec = hh.list[2].data[1]

(***************************************************************************)
(* C11  Out-of-range offsets.  For every header and every offset at or     *)
(* beyond ceil(numBytes / SectorSize) * SectorSize, ByteToSector ends in   *)
(* an internal error; it returns no value, and never the empty-slot marker *)
(* -1, as if it were a sector.                                             *)
(***************************************************************************)
C11_OutOfRange ==
    (/\ hphase \in {"allocated", "fetched"}
     /\ hres.seq = "TRUE"
     /\ hoff >= divRoundUp(hh.numBytes, SectorSize) * SectorSize) =>
        hsec \in {AssertFailed, NullDeref}

(***************************************************************************)
(* C12  Chain spill.  A successful Allocate of needed = ceil(byteLength /   *)
(* SectorSize) data sectors builds exactly ceil(needed / LinkedDirect)     *)
(* nodes and takes exactly needed plus that many sectors of the bitmap.    *)
(* Every node but the last is full and its link is the sector where the    *)
(* next node is stored; the last node holds the rest and ends the chain.   *)
(***************************************************************************)
C12_ChainSpill ==
    (hphase \in {"allocated", "written"} /\ hres.seq = "TRUE") =>
        LET needed == divRoundUp(hsize, SectorSize)
            nodes == divRoundUp(needed, LinkedDirect)
        IN /\ Len(hh.list) = nodes
           /\ Len(FlatData(hh.list)) = needed
           /\ hmap0 \subseteq hmap
           /\ hmap \ hmap0 = ChainSectors(hh)
           /\ Cardinality(hmap \ hmap0) = needed + nodes
           /\ \A i \in 1 .. (nodes - 1) :
                 /\ Len(NodeData(hh.list[i])) = LinkedDirect
                 /\ hh.list[i].link \in (hmap \ hmap0)
                 /\ hphase = "written" => disk[hh.list[i].link] = NodeImage(hh.list[i + 1])
           /\ nodes > 0 =>
                 /\ hh.list[nodes].link = -1
                 /\ Len(NodeData(hh.list[nodes])) = needed - (nodes - 1) * LinkedDirect
                 /\ hh.front \in (hmap \ hmap0)
                 /\ hphase = "written" => disk[hh.front] = NodeImage(hh.list[1])
           /\ nodes = 0 => hh.front = -1

\* a chain that spilled: a full first node linked to a second node on the disk
C12_Witness ==
    /\ hphase = "written"
    /\ hres.seq = "TRUE"
    /\ divRoundUp(hsize, SectorSize) > LinkedDirect
    /\ Len(hh.list) >= 2
    /\ disk[hh.list[1].link] = NodeImage(hh.list[2])

(***************************************************************************)
(* C17  FileHeader::Allocate returns what the chain allocator returned:    *)
(* FALSE whenever SeqDataSectors::Allocate returns FALSE (fewer free       *)
(* sectors than ceil(byteLength / SectorSize)), TRUE only when the chain   *)
(* was allocated.                                                          *)
(***************************************************************************)
C17_AllocateResult ==
    (hres.seq \in {"TRUE", "FALSE"}) =>
        /\ hres.file = hres.seq
        /\ (NumClear(hmap0) < divRoundUp(hsize, SectorSize)) => hres.file = "FALSE"

(***************************************************************************)
(* C18  Header size invariant.  A header in memory after a successful      *)
(* Allocate, or after FetchFrom of a header this file system wrote, has    *)
(* numSectors = ceil(numBytes / SectorSize), and numSectors is the number  *)
(* of filled data slots of its chain.                                      *)
(***************************************************************************)
C18_HeaderSize ==
    (hphase \in {"allocated", "fetched"} /\ hres.seq = "TRUE") =>
        /\ hh.numSectors = divRoundUp(hh.numBytes, SectorSize)
        /\ hh.numSectors = Len(FlatData(hh.list))

(***************************************************************************)
(* C19  SeqDataSectors::Allocate completes whenever the free count covers  *)
(* the data: with FreeCount() >= needed it returns TRUE with exactly       *)
(* needed data sectors, and never stops on an assertion with sectors       *)
(* already marked, also when FreeCount() < needed + the number of nodes.   *)
(***************************************************************************)
C19_AllocateCompletes ==
    (hres.seq # "none" /\ NumClear(hmap0) >= divRoundUp(hsize, SectorSize)) =>
        /\ hres.seq = "TRUE"
        /\ Len(FlatData(hh0.list)) = divRoundUp(hsize, SectorSize)

(***************************************************************************)
(* C20  A failed SeqDataSectors::Allocate consumes nothing: with           *)
(* FreeCount() < ceil(byteLength / SectorSize) it returns FALSE, the       *)
(* bitmap is unchanged, front stays -1 and no chain node is created.       *)
(***************************************************************************)
C20_FailedAllocate ==
    (hres.seq # "none" /\ NumClear(hmap0) < divRoundUp(hsize, SectorSize)) =>
        /\ hres.seq = "FALSE"
        /\ hh0.front = -1
        /\ hh0.list = <<>>
        /\ hphase = "exhausted" => hmap = hmap0

\* an Allocate refused with some sectors free, but fewer than the data needs
C20_Witness ==
    /\ hphase = "exhausted"
    /\ hres.seq = "FALSE"
    /\ NumClear(hmap0) > 0
    /\ NumClear(hmap0) < divRoundUp(hsize, SectorSize)
    /\ hmap = hmap0

(***************************************************************************)
(* C13  Remove frees everything the entry owns.  Remove of a name present  *)
(* in the root table returns TRUE, takes the entry out of the table and    *)
(* clears the header sector, every chain-node sector and every data sector *)
(* of the entry in the persisted bitmap; after a successful Create of a    *)
(* root-level file, Remove of that name brings the persisted bitmap back   *)
(* to what it was before the Create.                                       *)
(***************************************************************************)
C13_RemoveFrees ==
    (last.op = "Remove" /\ Find(Table(pre, DirectorySector), last.path) # -1) =>
        LET s == Find(Table(pre, DirectorySector), last.path)
            h == FileHeader_FetchFrom(pre, s).hdr
        IN /\ last.res = "TRUE"
           /\ Find(Table(disk, DirectorySector), last.path) = -1
           /\ PersistedBitmap(disk) = PersistedBitmap(pre) \ ({s} \cup ChainSectors(h))
           /\ last.undoes => PersistedBitmap(disk) = last.mapBefore

\* the index of the first write of kind k to sector s in a write log, 0 if there is none
WriteIndex(wlog, k, s) ==
    LET hits == {i \in 1 .. Len(wlog) : wlog[i] = [k |-> k, s |-> s]}
    IN IF hits = {} THEN 0 ELSE SetMin(hits)

(***************************************************************************)
(* C14  Write-back order of Create, as stated: on every successful Create  *)
(* the new header is written with its chain nodes, then the parent         *)
(* directory table, then the bitmap; no directory table is written before  *)
(* the header and no bitmap before the parent directory table.             *)
(***************************************************************************)
C14_WriteOrder ==
    (last.op = "Create" /\ last.res = "TRUE") =>
        LET w == last.wlog
            hi == WriteIndex(w, "hdr", last.sector)
            di == WriteIndex(w, "dir", last.dirSector)
        IN /\ hi > 0
           /\ di > hi
           /\ \A i \in 1 .. Len(w) : w[i].k = "dir" => i > hi
           /\ \A i \in 1 .. Len(w) : w[i].k = "map" => i > di

(***************************************************************************)
(* C14 (amended)  The writes a successful Create makes after it has        *)
(* resolved the path are, in this order: the chain nodes of the new file,  *)
(* its header, the parent directory table, the bitmap.  They end the       *)
(* call's writes, and they are all of them when the call creates no        *)
(* directory.                                                              *)
(***************************************************************************)
C14_WriteOrderAfterResolution ==
    (last.op = "Create" /\ last.res = "TRUE") =>
        LET w == last.wlog
            n == Len(w)
            ns == NodeSectors(FileHeader_FetchFrom(disk, last.sector).hdr)
            k == Len(ns)
        IN /\ n >= k + 3
           /\ \A i \in 1 .. k : w[n - 3 - k + i] = [k |-> "node", s |-> ns[i]]
           /\ w[n - 2] = [k |-> "hdr", s |-> last.sector]
           /\ w[n - 1] = [k |-> "dir", s |-> last.dirSector]
           /\ w[n] = [k |-> "map", s |-> FreeMapSector]
           /\ last.ndirs = 0 => n = k + 3

\* a Create that made a directory on the way and wrote a file with a chain
C14_Witness ==
    /\ last.op = "Create"
    /\ last.res = "TRUE"
    /\ last.ndirs >= 1
    /\ NodeSectors(FileHeader_FetchFrom(disk, last.sector).hdr) # <<>>
    /\ Len(last.wlog) > 4

\* the sectors of the file whose header is at sector s: the header, the chain nodes, the data
ObjSectors(d, s) ==
    LET h == FileHeader_FetchFrom(d, s).hdr
    IN <<s>> \o NodeSectors(h) \o FlatData(h.list)

\* the sectors of the files and directories entered in a table, and of all they hold in turn
RECURSIVE OwnedEntries(_, _, _, _)
OwnedEntries(d, table, i, depth) ==
    IF i > NumDirEntries
    THEN <<>>
    ELSE LET e == table[i]
             sub == DirectoryFetchFrom(d, e.sector)
         IN (IF ~e.inUse
             THEN <<>>
             ELSE ObjSectors(d, e.sector) \o
                  (IF e.isDir /\ depth > 0 /\ sub.ok
                   THEN OwnedEntries(d, sub.table, 1, depth - 1)
                   ELSE <<>>))
            \o OwnedEntries(d, table, i + 1, depth)

\* every sector that has an owner, once per owner: the bitmap file, the root directory, and
\* all that is reachable from the root table
AllOwned(d) ==
    ObjSectors(d, FreeMapSector) \o ObjSectors(d, DirectorySector)
        \o OwnedEntries(d, Table(d, DirectorySector), 1, NumSectors)

(***************************************************************************)
(* C15  Unique sector ownership.  In every state reached by Format,        *)
(* Create, Open, Remove and Resolve calls made one after the other, no     *)
(* sector is the header, a chain node or a data sector of two files or     *)
(* directories, or twice of one, and no sector that has an owner is free   *)
(* in the persisted bitmap.                                                *)
(***************************************************************************)
C15_UniqueOwnership ==
    LET owned == AllOwned(disk)
    IN /\ \A i, j \in 1 .. Len(owned) : i # j => owned[i] # owned[j]
       /\ Range(owned) \subseteq PersistedBitmap(disk)

\* a Create that takes for its header a sector that was freed after an earlier use
C15_Witness ==
    /\ last.op = "Create"
    /\ last.res = "TRUE"
    /\ pre[last.sector].kind # "raw"
    /\ last.sector \notin PersistedBitmap(pre)
    /\ Len(AllOwned(disk)) >= 9

\* both contexts have returned TRUE from their Create
BothCreated == \A c \in Contexts : ctx[c].pc = "done" /\ ctx[c].res = "TRUE"

\* a context wrote back a table or a bitmap that was no longer the one on the disk when it
\* had read it: the other context's write lay in between
StaleWrite == \E c \in Contexts : ctx[c].staleDir \/ ctx[c].staleMap

\* the persisted structures agree: every sector has one owner at most and is marked used, and
\* each file created is in its directory at the header sector its Create wrote
Consistent ==
    /\ LET owned == AllOwned(disk)
       IN /\ \A i, j \in 1 .. Len(owned) : i # j => owned[i] # owned[j]
          /\ Range(owned) \subseteq PersistedBitmap(disk)
    /\ \A c \in Contexts :
          Find(Table(disk, ctx[c].dirSector), ctx[c].name) = ctx[c].sector

\* the disk after the two Create calls made one after the other, first the one of context c
SerialDisk(c) ==
    LET o == CHOOSE x \in Contexts : x # c
    IN Create(Create(Formatted, ctx[c].path, ctx[c].size).io.disk, ctx[o].path, ctx[o].size).io.disk

(***************************************************************************)
(* C16  Unsynchronized interleaving corrupts state.  When two Create calls *)
(* run in two execution contexts and, interleaved at their disk I/O, one   *)
(* writes back a directory table or a bitmap read before the other's       *)
(* write, the persisted structures end up inconsistent: a sector owned by  *)
(* two files, an owned sector free in the bitmap, or a directory entry     *)
(* lost.  When no such write happens the disk is what the two calls give   *)
(* one after the other.                                                    *)
(***************************************************************************)
C16_RaceCorrupts ==
    BothCreated =>
        /\ StaleWrite => ~Consistent
        /\ ~StaleWrite => (Consistent /\ disk \in {SerialDisk(1), SerialDisk(2)})

\* both calls returned TRUE and the two files have the same header sector
C16_Witness ==
    /\ BothCreated
    /\ StaleWrite
    /\ Find(Table(disk, DirectorySector), LeafOf(PathF)) # -1
    /\ Find(Table(disk, DirectorySector), LeafOf(PathF))
           = Find(Table(disk, DirectorySector), LeafOf(PathG))

\* the shape of the chain of a header; stored says whether its nodes are on the disk d
ChainShape(hdr, d, stored) ==
    LET n == Len(hdr.list)
        ns == NodeSectors(hdr)
    IN /\ (hdr.front = -1) <=> (FlatData(hdr.list) = <<>>)
       /\ (hdr.front = -1) <=> (n = 0)
       /\ \A i \in 1 .. n :
             /\ (hdr.list[i].link = -1) <=> (i = n)
             /\ i < n => Len(NodeData(hdr.list[i])) = LinkedDirect
             /\ Len(NodeData(hdr.list[i])) >= 1
             /\ \A j \in 1 .. LinkedDirect :
                   (hdr.list[i].data[j] # -1) <=> (j <= Len(NodeData(hdr.list[i])))
             /\ ns[i] \in Sectors
             /\ stored => d[ns[i]] = NodeImage(hdr.list[i])
       /\ \A i, j \in 1 .. n : i # j => ns[i] # ns[j]

(***************************************************************************)
(* C21  Chain shape.  After a successful Allocate, after WriteBack, and    *)
(* after FetchFrom of the written header, head is the sentinel iff the     *)
(* chain holds no data sector; the link of a node is the sentinel iff the  *)
(* node is the last, else it is the sector where the next node is stored;  *)
(* every node but the last has all its slots filled, and the slots of the  *)
(* last are filled from index 0 without a gap.                             *)
(***************************************************************************)
C21_ChainShape ==
    (hphase \in {"allocated", "written", "fetched"} /\ hres.seq = "TRUE") =>
        ChainShape(hh, disk, hphase # "allocated")

\* a reloaded chain of two nodes whose last node is filled in part
C21_Witness ==
    /\ hphase = "fetched"
    /\ hres.seq = "TRUE"
    /\ Len(hh.list) >= 2
    /\ hh.list[Len(hh.list)].data[1] # -1
    /\ hh.list[Len(hh.list)].data[LinkedDirect] = -1

(***************************************************************************)
(* C22  No leaked sectors.  In every state reached by Format, Create,      *)
(* Open, Remove and Resolve calls made one after the other, every sector   *)
(* marked used in the persisted bitmap is the header, a chain node or a    *)
(* data sector of the bitmap file, of the root directory, or of a file or  *)
(* directory reachable from the root table; also after a Create that       *)
(* fails, after a resolution that creates a directory in a full parent     *)
(* table, and after Remove of a directory entry that still has children.   *)
(***************************************************************************)
C22_NoLeakedSectors ==
    PersistedBitmap(disk) \subseteq Range(AllOwned(disk))

\* the positions of the header writes in a write log, in order
HdrIndices(wlog) ==
    SelectSeq([i \in 1 .. Len(wlog) |-> i], LAMBDA i : wlog[i].k = "hdr")

\* whether a table holds an in-use entry flagged as a directory at sector s
HasDirEntryAt(table, s) ==
    \E j \in 1 .. NumDirEntries : table[j].inUse /\ table[j].isDir /\ table[j].sector = s

\* the writes of the i-th directory a call created, as the log w of the call holds them: the
\* chain nodes and the header of the new directory, the table of its parent, the bitmap, the
\* empty table of the new directory, all before the writes of the next one; and on the disk d
\* the call left, the directory with its sectors marked used
DirPersisted(w, i, d, d0) ==
    LET h == HdrIndices(w)
        s == w[h[i]].s
        ns == NodeSectors(FileHeader_FetchFrom(d, s).hdr)
        first == IF i = 1 THEN 1 ELSE h[i - 1] + 4
    IN /\ h[i] = first + Len(ns)
       /\ \A j \in 1 .. Len(ns) : w[first + j - 1] = [k |-> "node", s |-> ns[j]]
       /\ Len(w) >= h[i] + 3
       /\ w[h[i] + 1].k = "dir"
       /\ w[h[i] + 1].s = (IF i = 1 THEN w[h[i] + 1].s ELSE w[h[i - 1]].s)
       /\ DirectoryFetchFrom(d0, w[h[1] + 1].s).ok
       /\ w[h[i] + 2] = [k |-> "map", s |-> FreeMapSector]
       /\ w[h[i] + 3] = [k |-> "dir", s |-> s]
       /\ DirectoryFetchFrom(d, s).ok
       /\ Range(ObjSectors(d, s)) \subseteq PersistedBitmap(d)
       /\ Range(ObjSectors(d, s)) \cap PersistedBitmap(d0) = {}

\* ... and the table of its parent holds the directory-flagged entry
DirEntered(w, i, d) ==
    LET h == HdrIndices(w)
    IN HasDirEntryAt(Table(d, w[h[i] + 1].s), w[h[i]].s)

\* a call that went through path resolution, came back, and created a directory on the way
CreatedDirs ==
    /\ last.op \in {"Create", "Open", "Resolve"}
    /\ last.res # "ABORT"
    /\ last.ndirs >= 1

\* a Create that failed at the leaf wrote nothing after the directories, and the last of them
\* is left empty
LeafFailureKeepsDirs ==
    (last.op = "Create" /\ last.res = "FALSE") =>
        /\ Len(last.wlog) = HdrIndices(last.wlog)[last.ndirs] + 3
        /\ Table(disk, last.dirSector) = EmptyTable

ParentHadRoom(w, i, d0) ==
    \/ i > 1
    \/ \E j \in 1 .. NumDirEntries : ~Table(d0, w[HdrIndices(w)[1] + 1].s)[j].inUse

UniqueNames(table) ==
    \A i, j \in 1 .. NumDirEntries :
        (i # j /\ table[i].inUse /\ table[j].inUse) => table[i].name # table[j].name

Describes(d, s, size) ==
    LET f == FileHeader_FetchFrom(d, s)
    IN /\ d[s].kind = "hdr"
       /\ f.ok
       /\ FileLength(f.hdr) = size
       /\ Len(FlatData(f.hdr.list)) = divRoundUp(size, SectorSize)
       /\ Len(NodeSectors(f.hdr)) = divRoundUp(divRoundUp(size, SectorSize), LinkedDirect)

(***************************************************************************)
(* C25  Formatting postcondition.  After FileSystem(format = TRUE), on a   *)
(* blank disk or on one that held files, the persisted bitmap marks as     *)
(* used exactly sector 0, sector 1 and the chain-node and data sectors of  *)
(* the bitmap file and of the root directory file, each once; the headers  *)
(* at sectors 0 and 1 describe those two files; the persisted root         *)
(* directory table has no in-use entry.                                    *)
(***************************************************************************)
C25_FormatPostcondition ==
    (last.op = "Format" \/ ncalls = 0) =>
        LET own == ObjSectors(disk, FreeMapSector) \o ObjSectors(disk, DirectorySector)
        IN /\ PersistedBitmap(disk) = Range(own)
           /\ \A i, j \in 1 .. Len(own) : i # j => own[i] # own[j]
           /\ {FreeMapSector, DirectorySector} \subseteq PersistedBitmap(disk)
           /\ Describes(disk, FreeMapSector, FreeMapFileSize)
           /\ Describes(disk, DirectorySector, DirectoryFileSize)
           /\ disk[ContentSector(disk, FreeMapSector)].kind = "map"
           /\ DirectoryFetchFrom(disk, DirectorySector).ok
           /\ \A i \in 1 .. NumDirEntries : ~Table(disk, DirectorySector)[i].inUse

\* formatting a disk whose root table held entries and whose bitmap marked their sectors
C25_Witness ==
    /\ last.op = "Format"
    /\ \E i \in 1 .. NumDirEntries : Table(pre, DirectorySector)[i].inUse
    /\ PersistedBitmap(disk) # PersistedBitmap(pre)
    /\ PersistedBitmap(disk) \subseteq PersistedBitmap(pre)
    /\ Table(disk, DirectorySector) = EmptyTable

\* whether the file a path names is entered in its parent directory on the disk d
Exists(d, path) ==
    /\ ParentOf(d, path) # -1
    /\ Find(Table(d, ParentOf(d, path)), LeafOf(path)) # -1

(***************************************************************************)
(* C26  Single file handle protocol.  Read and Write are served only while *)
(* a file is open: a Read or Write call made after Close, after a failed   *)
(* OpenAndStore (return value 0) or before any OpenAndStore does not use   *)
(* an absent handle; and OpenAndStore returns 1 exactly when the named     *)
(* file exists.                                                            *)
(***************************************************************************)
C26_HandleProtocol ==
    /\ sys.op \in {"Read", "Write"} =>
          /\ sys.handle.state = "open"
          /\ sys.status = "returned"
    /\ sys.op = "Open" =>
          /\ sys.status = "returned"
          /\ (sys.ret = 1) <=> Exists(pre, sys.name)

====
